---- MODULE Spec2Model ----
(***************************************************************************)
(* The gateway process supervisor of webui/main.py: the module-level      *)
(* handle gateway_process, the threading.Lock gateway_lock, the startup   *)
(* hook and the restart / status / logs handlers, as they run on the      *)
(* single event-loop thread of the ASGI server.                           *)
(*                                                                         *)
(* A handler is a coroutine.  The loop thread runs one coroutine at a     *)
(* time (cur) until it awaits or returns.  gateway_lock is a              *)
(* threading.Lock: it is not reentrant and has no owner, so acquiring it  *)
(* while it is held blocks the calling thread, here the loop thread.      *)
(*                                                                         *)
(* The web gateway server of nanobot/web/server.py is a program of its    *)
(* own, with its own state (web): its startup and shutdown hooks.         *)
(***************************************************************************)
EXTENDS Naturals, Sequences, FiniteSets

\* ---------------------------------------------------------------- bounds
MaxRequests == 3      \* HTTP requests issued to the server in one run
MaxProcs == 2         \* process identifiers the OS can hand out in one run
MaxCalls == 4         \* direct calls of start_gateway in StartSpec
MaxLines == 2         \* lines the log file holds at most
MaxAuthRequests == 1  \* requests issued with credentials in AuthSpec
MaxLogRequests == 2   \* requests issued in LogSpec
MaxClients == 2       \* WebSocket connections made to the web gateway server

\* ------------------------------------------------------------- constants
Startup == 0                      \* the task of the startup hook
Requests == 1..MaxRequests        \* the tasks of the HTTP requests
Tasks == {Startup} \cup Requests
Pids == 1..MaxProcs
None == 0                         \* gateway_process = None
Free == 99                        \* gateway_lock not held
Idle == 98                        \* the loop thread runs no coroutine
Down == 97                        \* the server process has ended
AuthRequests == 1..MaxAuthRequests
LogRequests == 1..MaxLogRequests

Kinds == {"restart", "status", "logs"}

\* The other endpoints: plain reads and writes of files.
FileKinds == {"get_config", "save_config", "clear_logs", "list_skills",
              "get_skill", "save_skill", "delete_skill", "get_memory",
              "save_memory", "root"}
AllKinds == Kinds \cup FileKinds

\* CONFIG_FILE, SKILLS_DIR, MEMORY_FILE
Files == {"config", "skills", "memory"}

\* lines: int = 200, the default of get_logs; more than any log here holds
DefaultLines == 200

\* WEBUI_PASSWORD: not set (the default), or set
Passwords == {"", "pw"}

\* The Authorization header of a request: absent, or a user and a password
NoCredentials == [present |-> FALSE, user |-> "", password |-> ""]
Credentials ==
  {NoCredentials} \cup
  [present : {TRUE}, user : {"admin", "guest"}, password : {"pw", "wrong"}]

\* The WebSocket connections of nanobot/web/server.py
Clients == 1..MaxClients

VARIABLES
  gateway_process,  \* the handle: a pid, or None
  gateway_lock,     \* the task holding the lock, or Free
  proc,             \* the OS's view of each pid
  cur,              \* the coroutine the loop thread is running, or Idle
  pc,               \* each task's position in its code
  kind,             \* each request's endpoint ("none" before it is issued)
  ret,              \* what each task returned to its caller
  outcome,          \* what the task's spawn or signal came to
  old,              \* the pid a restart found alive at its liveness check
  sent,             \* the signals sent so far: <<task, pid, signal>>
  calls,            \* direct calls of start_gateway made so far (StartSpec)
  log,              \* the lines of LOG_FILE, oldest first
  log_exists,       \* LOG_FILE.exists()
  arg,              \* each request's "lines" parameter
  body,             \* the "lines" of each logs response
  cred,             \* each request's credentials
  WEBUI_PASSWORD,   \* the configured password ("" when not set)
  files,            \* the config, skills and memory files: "old" or "new"
  wpc,              \* web server: the position of the application's life
  app_agent,        \* web server: app["agent"]: "unset", "None" or "agent"
  app_cron,         \* web server: app["cron"]: "unset" or "cron"
  ws_clients,       \* web server: app["ws_clients"]
  agent,            \* web server: on_shutdown's local: what app.get("agent") gave
  todo,             \* web server: the copy of ws_clients on_shutdown iterates, what is left of it
  agent_state,      \* web server: the agent loop: "none", "running", "stopped"
  mcp,              \* web server: the agent's MCP connections: "none", "open", "closed"
  cron_state,       \* web server: the cron service: "none", "created", "stopped"
  ws,               \* web server: each connection: "unconnected", "open", "closed"
  began,            \* web server: ws_clients as it was when on_shutdown was called
  calls_made        \* web server: what on_shutdown called so far, in order

extras == <<log, log_exists, arg, body, cred, WEBUI_PASSWORD, files>>

\* The state of nanobot/web/server.py, a program of its own.
web == <<wpc, app_agent, app_cron, ws_clients, agent, todo, agent_state, mcp,
         cron_state, ws, began, calls_made>>

\* The state of webui/main.py.
supervisor == <<gateway_process, gateway_lock, proc, cur, pc, kind, ret,
                outcome, old, sent, calls, extras>>

vars == <<gateway_process, gateway_lock, proc, cur, pc, kind, ret, outcome,
          old, sent, calls, extras, web>>

\* ------------------------------------------------------------ OS helpers

\* Popen.poll() is None: the process has not terminated.  A process that was
\* sent SIGKILL ("dying") is in the process table until the kernel ends it.
Alive(p) == proc[p] \in {"running", "dying"}

LiveChildren == {p \in Pids : Alive(p)}

\* The test with "poll() is None" written "poll() is not None".
is_gateway_running_inverted(gp) == gp # None /\ ~Alive(gp)

\* The test left out: the branch is always taken.
is_gateway_running_unchecked(gp) == TRUE

\* The test without the poll: a handle, whatever became of its process.
is_gateway_running_nopoll(gp) == gp # None

\* is_gateway_running(), and the same test at the head of start_gateway and
\* restart_gateway: gateway_process and gateway_process.poll() is None
is_gateway_running(gp) == gp # None /\ Alive(gp)

Unborn == {p \in Pids : proc[p] = "unborn"}
NewPid == CHOOSE p \in Unborn : \A q \in Unborn : p <= q

\* ----------------------------------------------------------------- Init
\* The log file outlives the server: it is opened for appending, and what
\* an earlier run left in it is there when this run starts.  Its lines are
\* numbered from the oldest, 1, to the newest.
Lines(n) == [i \in 1..n |-> i]

\* create_app() has returned: the hooks are registered, none has run.
WebConstruction ==
  /\ wpc = "created"
  /\ app_agent = "unset"
  /\ app_cron = "unset"
  /\ ws_clients = {}
  /\ agent = "unset"
  /\ todo = {}
  /\ agent_state = "none"
  /\ mcp = "none"
  /\ cron_state = "none"
  /\ ws = [c \in Clients |-> "unconnected"]
  /\ began = {}
  /\ calls_made = <<>>

\* The module as imported, whatever the environment holds.
Construction ==
  /\ WebConstruction
  /\ log_exists \in BOOLEAN
  /\ log \in IF log_exists THEN {Lines(n) : n \in 0..MaxLines} ELSE {<<>>}
  /\ arg = [r \in Requests |-> DefaultLines]
  /\ body = [t \in Tasks |-> <<>>]
  /\ cred = [r \in Requests |-> NoCredentials]
  /\ files = [f \in Files |-> "old"]
  /\ gateway_process = None
  /\ gateway_lock = Free
  /\ proc = [p \in Pids |-> "unborn"]
  /\ cur = Idle
  /\ pc = [t \in Tasks |-> IF t = Startup THEN "init" ELSE "unissued"]
  /\ kind = [r \in Requests |-> "none"]
  /\ ret = [t \in Tasks |-> "pending"]
  /\ outcome = [t \in Tasks |-> "none"]
  /\ old = [t \in Tasks |-> None]
  /\ sent = <<>>
  /\ calls = 0

\* WEBUI_PASSWORD = os.environ.get("WEBUI_PASSWORD", ""): the default
Init == Construction /\ WEBUI_PASSWORD = ""

\* The same with the password set or not.
AuthInit == Construction /\ WEBUI_PASSWORD \in Passwords

\* --------------------------------------------------------- the framework

\* @app.on_event("startup"): the server runs the hook before it serves.
startup_event ==
  /\ pc[Startup] = "init"
  /\ cur = Idle
  /\ cur' = Startup
  /\ pc' = [pc EXCEPT ![Startup] = "s_lock"]
  /\ UNCHANGED <<gateway_process, gateway_lock, proc, kind, ret, outcome,
                 old, sent, calls>>
  /\ UNCHANGED <<extras, web>>

\* A client issues a request; the server listens once startup is complete.
Arrive(r, k) ==
  /\ pc[Startup] = "done"
  /\ cur # Down
  /\ pc[r] = "unissued"
  /\ kind' = [kind EXCEPT ![r] = k]
  /\ pc' = [pc EXCEPT ![r] = "queued"]
  /\ UNCHANGED <<gateway_process, gateway_lock, proc, cur, ret, outcome,
                 old, sent, calls>>
  /\ UNCHANGED <<extras, web>>

\* check_auth with "credentials is None" admitted.
check_auth_admits_anonymous(c) ==
  \/ WEBUI_PASSWORD = ""
  \/ ~c.present
  \/ c.password = WEBUI_PASSWORD

\* check_auth: TRUE when it returns True, FALSE when it raises
\* HTTPException(401).  The user name is not looked at.
check_auth(c) ==
  \/ WEBUI_PASSWORD = ""
  \/ c.present /\ c.password = WEBUI_PASSWORD

\* The loop, when it runs nothing, takes a queued request: Depends(check_auth)
\* runs before the handler, and a request it refuses is answered 401.
Dispatch(r) ==
  /\ cur = Idle
  /\ pc[r] = "queued"
  /\ IF check_auth(cred[r])
       THEN /\ cur' = r
            /\ pc' = [pc EXCEPT ![r] = CASE kind[r] = "restart" -> "r_lock"
                                         [] kind[r] = "status" -> "q_status"
                                         [] kind[r] = "logs" -> "q_logs"
                                         [] OTHER -> "q_file"]
            /\ ret' = ret
       ELSE /\ cur' = cur
            /\ pc' = [pc EXCEPT ![r] = "done"]
            /\ ret' = [ret EXCEPT ![r] = "401"]
  /\ UNCHANGED <<gateway_process, gateway_lock, proc, kind, outcome, old,
                 sent, calls>>
  /\ UNCHANGED <<extras, web>>

\* ---------------------------------------------------------- start_gateway

\* start_gateway without "with gateway_lock".
StartAcquireNoLock(t) ==
  /\ cur = t
  /\ pc[t] = "s_lock"
  /\ pc' = [pc EXCEPT ![t] = "s_check"]
  /\ UNCHANGED <<gateway_process, gateway_lock, proc, cur, kind, ret, outcome,
                 old, sent, calls>>
  /\ UNCHANGED <<extras, web>>

\* with gateway_lock: (blocks the thread while the lock is held)
StartAcquire(t) ==
  /\ cur = t
  /\ pc[t] = "s_lock"
  /\ gateway_lock = Free
  /\ gateway_lock' = t
  /\ pc' = [pc EXCEPT ![t] = "s_check"]
  /\ UNCHANGED <<gateway_process, proc, cur, kind, ret, outcome, old, sent,
                 calls>>
  /\ UNCHANGED <<extras, web>>

\* if gateway_process and gateway_process.poll() is None: return
StartCheck(t) ==
  /\ cur = t
  /\ pc[t] = "s_check"
  /\ IF is_gateway_running(gateway_process)
       THEN /\ pc' = [pc EXCEPT ![t] = "s_ret"]
            /\ outcome' = [outcome EXCEPT ![t] = "already"]
       ELSE /\ pc' = [pc EXCEPT ![t] = "s_spawn"]
            /\ outcome' = outcome
  /\ UNCHANGED <<gateway_process, gateway_lock, proc, cur, kind, ret, old,
                 sent, calls>>
  /\ UNCHANGED <<extras, web>>

\* mkdir, open(LOG_FILE, "a"), gateway_process = subprocess.Popen(...);
\* except Exception as e: print(...).  The handle is assigned by the
\* statement whose right-hand side is the spawn, so a failed spawn assigns
\* nothing.  The OS refuses when it chooses to, and when it has no pid left;
\* it may refuse the mkdir or the open, and then no log file is created, or
\* the Popen, and then the file is there (opening for append creates it).
HandleAssignedBeforeSpawn(gp, p) == p
HandleAfterFailedSpawn(gp, p) == gp

StartSpawn(t) ==
  /\ cur = t
  /\ pc[t] = "s_spawn"
  /\ \E refused \in {"nothing", "open", "Popen"} :
       /\ log_exists' = (log_exists \/ refused # "open")
       /\ IF refused = "nothing" /\ Unborn # {}
            THEN /\ proc' = [proc EXCEPT ![NewPid] = "running"]
                 /\ gateway_process' = NewPid
                 /\ outcome' = [outcome EXCEPT ![t] = "spawned"]
            ELSE /\ proc' = proc
                 /\ gateway_process' =
                      HandleAfterFailedSpawn(gateway_process,
                                             IF Unborn # {} THEN NewPid ELSE None)
                 /\ outcome' = [outcome EXCEPT ![t] = "spawnfail"]
  /\ pc' = [pc EXCEPT ![t] = "s_ret"]
  /\ UNCHANGED <<gateway_lock, cur, kind, ret, old, sent, calls>>
  /\ UNCHANGED <<log, arg, body, cred, WEBUI_PASSWORD, files, web>>

\* The end of "with gateway_lock" and the return of None.  Called from the
\* startup hook (or directly), the task is done.  Called from
\* restart_gateway, control is back at line 121: the handler builds its
\* result and leaves its own "with gateway_lock", which releases a lock that
\* start_gateway has already released: threading.Lock.release raises
\* RuntimeError outside the handler's try, and the request fails.
StartReturn(t) ==
  /\ cur = t
  /\ pc[t] = "s_ret"
  /\ gateway_lock' = Free
  /\ pc' = [pc EXCEPT ![t] = "done"]
  /\ ret' = [ret EXCEPT ![t] = IF t = Startup THEN "None" ELSE "unhandled"]
  /\ cur' = Idle
  /\ UNCHANGED <<gateway_process, proc, kind, outcome, old, sent, calls>>
  /\ UNCHANGED <<extras, web>>

\* A direct caller (a test, a script) calls start_gateway again after the
\* previous call returned.
CallStart ==
  /\ pc[Startup] = "done"
  /\ cur = Idle
  /\ calls < MaxCalls
  /\ calls' = calls + 1
  /\ cur' = Startup
  /\ pc' = [pc EXCEPT ![Startup] = "s_lock"]
  /\ outcome' = [outcome EXCEPT ![Startup] = "none"]
  /\ ret' = [ret EXCEPT ![Startup] = "pending"]
  /\ UNCHANGED <<gateway_process, gateway_lock, proc, kind, old, sent>>
  /\ UNCHANGED <<extras, web>>

\* -------------------------------------------------------- restart_gateway

\* The lock taken without waiting for it (a reentrant lock, or a
\* non-blocking acquire whose result is ignored).
RestartAcquireNoWait(t) ==
  /\ cur = t
  /\ pc[t] = "r_lock"
  /\ gateway_lock' = t
  /\ pc' = [pc EXCEPT ![t] = "r_check"]
  /\ UNCHANGED <<gateway_process, proc, cur, kind, ret, outcome, old, sent,
                 calls>>
  /\ UNCHANGED <<extras, web>>

\* with gateway_lock: (blocks the loop thread while the lock is held)
RestartAcquire(t) ==
  /\ cur = t
  /\ pc[t] = "r_lock"
  /\ gateway_lock = Free
  /\ gateway_lock' = t
  /\ pc' = [pc EXCEPT ![t] = "r_check"]
  /\ UNCHANGED <<gateway_process, proc, cur, kind, ret, outcome, old, sent,
                 calls>>
  /\ UNCHANGED <<extras, web>>

\* if gateway_process and gateway_process.poll() is None:
RestartCheck(t) ==
  /\ cur = t
  /\ pc[t] = "r_check"
  /\ IF is_gateway_running(gateway_process)
       THEN /\ pc' = [pc EXCEPT ![t] = "r_term"]
            /\ old' = [old EXCEPT ![t] = gateway_process]
       ELSE /\ pc' = [pc EXCEPT ![t] = "r_sleep"]
            /\ old' = old
  /\ UNCHANGED <<gateway_process, gateway_lock, proc, cur, kind, ret,
                 outcome, sent, calls>>
  /\ UNCHANGED <<extras, web>>

\* kill() where the code calls terminate().
RestartTerminateKills(t) ==
  /\ cur = t
  /\ pc[t] = "r_term"
  /\ gateway_process # None
  /\ pc' = [pc EXCEPT ![t] = "r_wait"]
  /\ IF Alive(gateway_process)
       THEN /\ sent' = Append(sent, <<t, gateway_process, "KILL">>)
            /\ proc' = [proc EXCEPT ![gateway_process] = "dying"]
       ELSE /\ sent' = sent
            /\ proc' = proc
  /\ UNCHANGED <<gateway_process, gateway_lock, cur, kind, ret, outcome, old,
                 calls>>
  /\ UNCHANGED <<extras, web>>

\* gateway_process.terminate(): Popen polls, and signals a process that has
\* not terminated.  os.kill may be refused (PermissionError), and calling a
\* method of None raises too: both land in "except Exception".
RestartTerminate(t) ==
  /\ cur = t
  /\ pc[t] = "r_term"
  /\ \E denied \in BOOLEAN :
       IF gateway_process = None \/ (denied /\ Alive(gateway_process))
         THEN /\ pc' = [pc EXCEPT ![t] = "r_except"]
              /\ sent' = sent
              /\ outcome' = [outcome EXCEPT ![t] = "signalfail"]
         ELSE /\ pc' = [pc EXCEPT ![t] = "r_wait"]
              /\ sent' = IF Alive(gateway_process)
                            THEN Append(sent, <<t, gateway_process, "TERM">>)
                            ELSE sent
              /\ outcome' = outcome
  /\ UNCHANGED <<gateway_process, gateway_lock, proc, cur, kind, ret, old,
                 calls>>
  /\ UNCHANGED <<extras, web>>

\* gateway_process.wait(timeout=5): the thread is blocked until the child
\* has exited or the five seconds are over (TimeoutExpired).
RestartWait(t) ==
  /\ cur = t
  /\ pc[t] = "r_wait"
  /\ \E exits \in BOOLEAN :
       IF ~Alive(gateway_process)
         THEN /\ proc' = proc
              /\ pc' = [pc EXCEPT ![t] = "r_sleep"]
         ELSE IF exits
           THEN /\ proc' = [proc EXCEPT ![gateway_process] = "exited"]
                /\ pc' = [pc EXCEPT ![t] = "r_sleep"]
           ELSE /\ proc' = proc
                /\ pc' = [pc EXCEPT ![t] = "r_kill"]
  /\ UNCHANGED <<gateway_process, gateway_lock, cur, kind, ret, outcome,
                 old, sent, calls>>
  /\ UNCHANGED <<extras, web>>

\* except subprocess.TimeoutExpired: gateway_process.kill().  SIGKILL is
\* sent and kill() returns; nothing waits for the process to be gone.
RestartKill(t) ==
  /\ cur = t
  /\ pc[t] = "r_kill"
  /\ IF Alive(gateway_process)
       THEN /\ proc' = [proc EXCEPT ![gateway_process] = "dying"]
            /\ sent' = Append(sent, <<t, gateway_process, "KILL">>)
       ELSE /\ proc' = proc
            /\ sent' = sent
  /\ pc' = [pc EXCEPT ![t] = "r_sleep"]
  /\ UNCHANGED <<gateway_process, gateway_lock, cur, kind, ret, outcome,
                 old, calls>>
  /\ UNCHANGED <<extras, web>>

\* await asyncio.sleep(1): the coroutine is suspended, inside the "with",
\* and the loop thread is free to run other coroutines.
RestartSleep(t) ==
  /\ cur = t
  /\ pc[t] = "r_sleep"
  /\ cur' = Idle
  /\ pc' = [pc EXCEPT ![t] = "r_slept"]
  /\ UNCHANGED <<gateway_process, gateway_lock, proc, kind, ret, outcome,
                 old, sent, calls>>
  /\ UNCHANGED <<extras, web>>

\* The second is over and the loop, when it runs nothing, resumes the
\* coroutine.
Resume(t) ==
  /\ cur = Idle
  /\ pc[t] = "r_slept"
  /\ cur' = t
  /\ pc' = [pc EXCEPT ![t] = "r_start"]
  /\ UNCHANGED <<gateway_process, gateway_lock, proc, kind, ret, outcome,
                 old, sent, calls>>
  /\ UNCHANGED <<extras, web>>

\* The spawn written out in the handler, with no liveness test, in place of
\* the call of start_gateway.
RestartSpawnInline(t) ==
  /\ cur = t
  /\ pc[t] = "r_start"
  /\ Unborn # {}
  /\ proc' = [proc EXCEPT ![NewPid] = "running"]
  /\ gateway_process' = NewPid
  /\ outcome' = [outcome EXCEPT ![t] = "spawned"]
  /\ pc' = [pc EXCEPT ![t] = "s_ret"]
  /\ UNCHANGED <<gateway_lock, cur, kind, ret, old, sent, calls>>
  /\ UNCHANGED <<extras, web>>

\* start_gateway(), called on the loop thread with gateway_lock held.
RestartCallStart(t) ==
  /\ cur = t
  /\ pc[t] = "r_start"
  /\ pc' = [pc EXCEPT ![t] = "s_lock"]
  /\ UNCHANGED <<gateway_process, gateway_lock, proc, cur, kind, ret,
                 outcome, old, sent, calls>>
  /\ UNCHANGED <<extras, web>>

\* except Exception as e: return {"success": False, "error": str(e)}, and
\* the end of "with gateway_lock".
RestartExcept(t) ==
  /\ cur = t
  /\ pc[t] = "r_except"
  /\ ret' = [ret EXCEPT ![t] = "failure"]
  /\ gateway_lock' = Free
  /\ pc' = [pc EXCEPT ![t] = "done"]
  /\ cur' = Idle
  /\ UNCHANGED <<gateway_process, proc, kind, outcome, old, sent, calls>>
  /\ UNCHANGED <<extras, web>>

\* ------------------------------------------------------ status and logs

\* get_status with the liveness read inside "with gateway_lock".
get_status_locked(t) ==
  /\ cur = t
  /\ pc[t] = "q_status"
  /\ gateway_lock = Free
  /\ ret' = [ret EXCEPT ![t] = IF gateway_process # None /\ Alive(gateway_process)
                                 THEN "running" ELSE "stopped"]
  /\ pc' = [pc EXCEPT ![t] = "done"]
  /\ cur' = Idle
  /\ UNCHANGED <<gateway_process, gateway_lock, proc, kind, outcome, old,
                 sent, calls>>
  /\ UNCHANGED <<extras, web>>

\* get_status: {"ok": True, "gateway_running": is_gateway_running(), ...}
get_status(t) ==
  /\ cur = t
  /\ pc[t] = "q_status"
  /\ ret' = [ret EXCEPT ![t] = IF is_gateway_running(gateway_process)
                                 THEN "running" ELSE "stopped"]
  /\ pc' = [pc EXCEPT ![t] = "done"]
  /\ cur' = Idle
  /\ UNCHANGED <<gateway_process, gateway_lock, proc, kind, outcome, old,
                 sent, calls>>
  /\ UNCHANGED <<extras, web>>

\* all_lines[-lines:] for lines >= 0: Python's slice from the end, where
\* -0 is 0, the start of the list.
SliceStart(len, n) == IF n = 0 THEN 0 ELSE IF n >= len THEN 0 ELSE len - n
LastLines(all_lines, n) ==
  SubSeq(all_lines, SliceStart(Len(all_lines), n) + 1, Len(all_lines))

\* get_logs without "if not LOG_FILE.exists()": the open of a file that is
\* not there raises, and the answer carries the error.
get_logs_no_exists_check(t) ==
  /\ cur = t
  /\ pc[t] = "q_logs"
  /\ \E raises \in BOOLEAN :
       IF ~log_exists \/ raises
         THEN /\ ret' = [ret EXCEPT ![t] = "error_lines"]
              /\ body' = [body EXCEPT ![t] = <<>>]
         ELSE /\ ret' = [ret EXCEPT ![t] = "lines"]
              /\ body' = [body EXCEPT ![t] = LastLines(log, arg[t])]
  /\ pc' = [pc EXCEPT ![t] = "done"]
  /\ cur' = Idle
  /\ UNCHANGED <<gateway_process, gateway_lock, proc, kind, outcome, old,
                 sent, calls>>
  /\ UNCHANGED <<log, log_exists, arg, cred, WEBUI_PASSWORD, files, web>>

\* get_logs without try / except: a read that raises fails the request.
get_logs_unguarded(t) ==
  /\ cur = t
  /\ pc[t] = "q_logs"
  /\ \E raises \in BOOLEAN :
       IF ~log_exists
         THEN /\ ret' = [ret EXCEPT ![t] = "lines"]
              /\ body' = [body EXCEPT ![t] = <<>>]
         ELSE IF raises
           THEN /\ ret' = [ret EXCEPT ![t] = "unhandled"]
                /\ body' = body
           ELSE /\ ret' = [ret EXCEPT ![t] = "lines"]
                /\ body' = [body EXCEPT ![t] = LastLines(log, arg[t])]
  /\ pc' = [pc EXCEPT ![t] = "done"]
  /\ cur' = Idle
  /\ UNCHANGED <<gateway_process, gateway_lock, proc, kind, outcome, old,
                 sent, calls>>
  /\ UNCHANGED <<log, log_exists, arg, cred, WEBUI_PASSWORD, files, web>>

\* get_logs: no file, {"lines": []}; a read that raises,
\* {"error": str(e), "lines": []}; else {"lines": all_lines[-lines:]}
get_logs(t) ==
  /\ cur = t
  /\ pc[t] = "q_logs"
  /\ \E raises \in BOOLEAN :
       IF ~log_exists
         THEN /\ ret' = [ret EXCEPT ![t] = "lines"]
              /\ body' = [body EXCEPT ![t] = <<>>]
         ELSE IF raises
           THEN /\ ret' = [ret EXCEPT ![t] = "error_lines"]
                /\ body' = [body EXCEPT ![t] = <<>>]
           ELSE /\ ret' = [ret EXCEPT ![t] = "lines"]
                /\ body' = [body EXCEPT ![t] = LastLines(log, arg[t])]
  /\ pc' = [pc EXCEPT ![t] = "done"]
  /\ cur' = Idle
  /\ UNCHANGED <<gateway_process, gateway_lock, proc, kind, outcome, old,
                 sent, calls>>
  /\ UNCHANGED <<log, log_exists, arg, cred, WEBUI_PASSWORD, files, web>>

\* ------------------------------------------------------- the environment

\* The child exits on its own (it crashed, it was told to, it finished).
ChildExit(p) ==
  /\ proc[p] = "running"
  /\ proc' = [proc EXCEPT ![p] = "exited"]
  /\ UNCHANGED <<gateway_process, gateway_lock, cur, pc, kind, ret, outcome,
                 old, sent, calls>>
  /\ UNCHANGED <<extras, web>>

\* The kernel ends a process that was sent SIGKILL.
Die(p) ==
  /\ proc[p] = "dying"
  /\ proc' = [proc EXCEPT ![p] = "exited"]
  /\ UNCHANGED <<gateway_process, gateway_lock, cur, pc, kind, ret, outcome,
                 old, sent, calls>>
  /\ UNCHANGED <<extras, web>>

\* The child writes a line: its stdout and stderr are the log file, opened
\* for appending.
ChildWrite(p) ==
  /\ Alive(p)
  /\ log_exists
  /\ Len(log) < MaxLines
  /\ log' = Append(log, Len(log) + 1)
  /\ UNCHANGED <<gateway_process, gateway_lock, proc, cur, pc, kind, ret,
                 outcome, old, sent, calls>>
  /\ UNCHANGED <<log_exists, arg, body, cred, WEBUI_PASSWORD, files, web>>

\* The server process ends (a signal, the end of the service).  The module
\* registers a startup hook and no shutdown hook: nothing runs, no
\* coroutine runs again, and the child is left as it is.
Shutdown ==
  /\ pc[Startup] = "done"
  /\ cur # Down
  /\ cur' = Down
  /\ UNCHANGED <<gateway_process, gateway_lock, proc, pc, kind, ret, outcome,
                 old, sent, calls>>
  /\ UNCHANGED <<extras, web>>

\* ------------------------------------------------- requests with inputs

\* GET /api/logs?lines=n
LogArrive(r, n) ==
  /\ pc[Startup] = "done"
  /\ cur # Down
  /\ pc[r] = "unissued"
  /\ kind' = [kind EXCEPT ![r] = "logs"]
  /\ arg' = [arg EXCEPT ![r] = n]
  /\ pc' = [pc EXCEPT ![r] = "queued"]
  /\ UNCHANGED <<gateway_process, gateway_lock, proc, cur, ret, outcome,
                 old, sent, calls>>
  /\ UNCHANGED <<log, log_exists, body, cred, WEBUI_PASSWORD, files, web>>

\* A request to any endpoint, with or without an Authorization header.
AuthArrive(r, k, c) ==
  /\ pc[Startup] = "done"
  /\ cur # Down
  /\ pc[r] = "unissued"
  /\ kind' = [kind EXCEPT ![r] = k]
  /\ cred' = [cred EXCEPT ![r] = c]
  /\ pc' = [pc EXCEPT ![r] = "queued"]
  /\ UNCHANGED <<gateway_process, gateway_lock, proc, cur, ret, outcome,
                 old, sent, calls>>
  /\ UNCHANGED <<log, log_exists, arg, body, WEBUI_PASSWORD, files, web>>

\* ------------------------------------------------------ the file endpoints

\* A handler that reads and answers.
FileRead(t, k, answer) ==
  /\ cur = t
  /\ pc[t] = "q_file"
  /\ kind[t] = k
  /\ ret' = [ret EXCEPT ![t] = answer]
  /\ pc' = [pc EXCEPT ![t] = "done"]
  /\ cur' = Idle
  /\ UNCHANGED <<gateway_process, gateway_lock, proc, kind, outcome, old,
                 sent, calls>>
  /\ UNCHANGED <<extras, web>>

\* A handler that writes a file inside try / except Exception: the body of
\* the request may not parse, or the write may fail, and then nothing is
\* written and the answer is {"success": False, ...}.
FileWrite(t, k, f) ==
  /\ cur = t
  /\ pc[t] = "q_file"
  /\ kind[t] = k
  /\ \E raises \in BOOLEAN :
       IF raises
         THEN /\ files' = files
              /\ ret' = [ret EXCEPT ![t] = "failure"]
         ELSE /\ files' = [files EXCEPT ![f] = "new"]
              /\ ret' = [ret EXCEPT ![t] = "success"]
  /\ pc' = [pc EXCEPT ![t] = "done"]
  /\ cur' = Idle
  /\ UNCHANGED <<gateway_process, gateway_lock, proc, kind, outcome, old,
                 sent, calls>>
  /\ UNCHANGED <<log, log_exists, arg, body, cred, WEBUI_PASSWORD, web>>

get_config(t) == FileRead(t, "get_config", "config")
save_config(t) == FileWrite(t, "save_config", "config")
list_skills(t) == FileRead(t, "list_skills", "skills")

\* get_skill: 404 when the skill's file does not exist
get_skill(t) ==
  \E exists \in BOOLEAN :
    FileRead(t, "get_skill", IF exists THEN "skill" ELSE "404")

save_skill(t) == FileWrite(t, "save_skill", "skills")

\* delete_skill: if f.exists(): f.unlink(); no try around it
delete_skill(t) ==
  /\ cur = t
  /\ pc[t] = "q_file"
  /\ kind[t] = "delete_skill"
  /\ \E exists \in BOOLEAN :
       files' = IF exists THEN [files EXCEPT !["skills"] = "new"] ELSE files
  /\ ret' = [ret EXCEPT ![t] = "success"]
  /\ pc' = [pc EXCEPT ![t] = "done"]
  /\ cur' = Idle
  /\ UNCHANGED <<gateway_process, gateway_lock, proc, kind, outcome, old,
                 sent, calls>>
  /\ UNCHANGED <<log, log_exists, arg, body, cred, WEBUI_PASSWORD, web>>

get_memory(t) == FileRead(t, "get_memory", "memory")
save_memory(t) == FileWrite(t, "save_memory", "memory")
root(t) == FileRead(t, "root", "html")

\* clear_logs: LOG_FILE.write_text(""), which creates the file or empties
\* it; a write that raises is answered {"success": False, ...}.
clear_logs(t) ==
  /\ cur = t
  /\ pc[t] = "q_file"
  /\ kind[t] = "clear_logs"
  /\ \E raises \in BOOLEAN :
       IF raises
         THEN /\ log' = log
              /\ log_exists' = log_exists
              /\ ret' = [ret EXCEPT ![t] = "failure"]
         ELSE /\ log' = <<>>
              /\ log_exists' = TRUE
              /\ ret' = [ret EXCEPT ![t] = "success"]
  /\ pc' = [pc EXCEPT ![t] = "done"]
  /\ cur' = Idle
  /\ UNCHANGED <<gateway_process, gateway_lock, proc, kind, outcome, old,
                 sent, calls>>
  /\ UNCHANGED <<arg, body, cred, WEBUI_PASSWORD, files, web>>

FileStep(t) ==
  \/ get_config(t) \/ save_config(t) \/ list_skills(t) \/ get_skill(t)
  \/ save_skill(t) \/ delete_skill(t) \/ get_memory(t) \/ save_memory(t)
  \/ root(t) \/ clear_logs(t)

\* ------------------------------------------------------- specifications

\* ======================================== nanobot/web/server.py
\* The aiohttp application of the web gateway server.  Its hooks and
\* handlers are coroutines of one event loop: between two awaits nothing
\* else runs.  on_startup has no await; on_shutdown awaits agent.close_mcp()
\* and each ws.close().

\* The handlers run: the application serves, or on_shutdown is at an await.
HandlersRun == wpc \in {"serving", "s_mcp", "s_ws"}

\* on_startup: load_config() raises before anything is stored, or the shared
\* resources are stored; the agent is not created here.
on_startup ==
  /\ wpc = "created"
  /\ \E raised \in BOOLEAN :
       IF raised
         THEN /\ wpc' = "failed"
              /\ UNCHANGED <<app_agent, app_cron, cron_state, ws_clients>>
         ELSE /\ wpc' = "serving"
              /\ app_agent' = "None"
              /\ app_cron' = "cron"
              /\ cron_state' = "created"
              /\ ws_clients' = {}
  /\ UNCHANGED <<agent, todo, agent_state, mcp, ws, began, calls_made>>
  /\ UNCHANGED supervisor

\* "Agent loop (lazy -- only created when chat is used)": a handler stores
\* the agent in app["agent"].
CreateAgent ==
  /\ HandlersRun
  /\ app_agent = "None"
  /\ app_agent' = "agent"
  /\ agent_state' = "running"
  /\ mcp' = "open"
  /\ UNCHANGED <<wpc, app_cron, ws_clients, agent, todo, cron_state, ws,
                 began, calls_made>>
  /\ UNCHANGED supervisor

\* "WebSocket clients for event broadcasting": the handler of a connection
\* adds it to app["ws_clients"] ...
WsRegister(c) ==
  /\ HandlersRun
  /\ ws[c] = "unconnected"
  /\ ws' = [ws EXCEPT ![c] = "open"]
  /\ ws_clients' = ws_clients \cup {c}
  /\ UNCHANGED <<wpc, app_agent, app_cron, agent, todo, agent_state, mcp,
                 cron_state, began, calls_made>>
  /\ UNCHANGED supervisor

\* ... the peer closes the connection ...
WsPeerClose(c) ==
  /\ HandlersRun
  /\ ws[c] = "open"
  /\ ws' = [ws EXCEPT ![c] = "closed"]
  /\ UNCHANGED <<wpc, app_agent, app_cron, ws_clients, agent, todo,
                 agent_state, mcp, cron_state, began, calls_made>>
  /\ UNCHANGED supervisor

\* ... and the handler, its connection closed, takes it out of the set.
WsUnregister(c) ==
  /\ HandlersRun
  /\ c \in ws_clients
  /\ ws[c] = "closed"
  /\ ws_clients' = ws_clients \ {c}
  /\ UNCHANGED <<wpc, app_agent, app_cron, agent, todo, agent_state, mcp,
                 cron_state, ws, began, calls_made>>
  /\ UNCHANGED supervisor

\* on_shutdown, lines 50-53, up to its first await: agent = app.get("agent");
\* if agent: agent.stop(), and close_mcp() is awaited.
ShutdownBegin ==
  /\ wpc = "serving"
  /\ agent' = app_agent
  /\ began' = ws_clients
  /\ IF app_agent = "agent"
       THEN /\ agent_state' = "stopped"
            /\ calls_made' = Append(calls_made, "agent.stop")
            /\ wpc' = "s_mcp"
       ELSE /\ wpc' = "s_cron"
            /\ UNCHANGED <<agent_state, calls_made>>
  /\ UNCHANGED <<app_agent, app_cron, ws_clients, todo, mcp, cron_state, ws>>
  /\ UNCHANGED supervisor

\* await agent.close_mcp() returns, or raises out of on_shutdown.
ShutdownCloseMcp ==
  /\ wpc = "s_mcp"
  /\ \E raised \in BOOLEAN :
       IF raised
         THEN /\ wpc' = "raised"
              /\ UNCHANGED <<mcp, calls_made>>
         ELSE /\ wpc' = "s_cron"
              /\ mcp' = "closed"
              /\ calls_made' = Append(calls_made, "close_mcp")
  /\ UNCHANGED <<app_agent, app_cron, ws_clients, agent, todo, agent_state,
                 cron_state, ws, began>>
  /\ UNCHANGED supervisor

\* cron.stop() left inside "if agent:".
ShutdownCronOnlyWithAgent ==
  /\ wpc = "s_cron"
  /\ IF app_cron = "cron" /\ agent = "agent"
       THEN /\ cron_state' = "stopped"
            /\ calls_made' = Append(calls_made, "cron.stop")
       ELSE UNCHANGED <<cron_state, calls_made>>
  /\ todo' = ws_clients
  /\ wpc' = "s_ws"
  /\ UNCHANGED <<app_agent, app_cron, ws_clients, agent, agent_state, mcp,
                 ws, began>>
  /\ UNCHANGED supervisor

\* on_shutdown, lines 55-60, no await: cron = app.get("cron"); if cron:
\* cron.stop(); then the copy set(app.get("ws_clients", [])) is taken.
ShutdownCron ==
  /\ wpc = "s_cron"
  /\ IF app_cron = "cron"
       THEN /\ cron_state' = "stopped"
            /\ calls_made' = Append(calls_made, "cron.stop")
       ELSE UNCHANGED <<cron_state, calls_made>>
  /\ todo' = ws_clients
  /\ wpc' = "s_ws"
  /\ UNCHANGED <<app_agent, app_cron, ws_clients, agent, agent_state, mcp,
                 ws, began>>
  /\ UNCHANGED supervisor

\* on_shutdown, lines 60-61: the loop over the copy, in the order the set
\* gives; await ws.close() returns (a closed connection stays closed) or
\* raises out of on_shutdown; the copy exhausted, on_shutdown returns.
ShutdownCloseWs ==
  /\ wpc = "s_ws"
  /\ IF todo = {}
       THEN /\ wpc' = "done"
            /\ UNCHANGED <<todo, ws, calls_made>>
       ELSE \E c \in todo : \E raised \in BOOLEAN :
              IF raised
                THEN /\ wpc' = "raised"
                     /\ UNCHANGED <<todo, ws, calls_made>>
                ELSE /\ ws' = [ws EXCEPT ![c] = "closed"]
                     /\ todo' = todo \ {c}
                     /\ calls_made' = Append(calls_made, "ws.close")
                     /\ UNCHANGED wpc
  /\ UNCHANGED <<app_agent, app_cron, ws_clients, agent, agent_state, mcp,
                 cron_state, began>>
  /\ UNCHANGED supervisor

on_shutdown ==
  ShutdownBegin \/ ShutdownCloseMcp \/ ShutdownCron \/ ShutdownCloseWs

StartStep(t) == StartAcquire(t) \/ StartCheck(t) \/ StartSpawn(t) \/ StartReturn(t)

RestartStep(t) ==
  \/ RestartAcquire(t) \/ RestartCheck(t) \/ RestartTerminate(t)
  \/ RestartWait(t) \/ RestartKill(t) \/ RestartSleep(t) \/ Resume(t)
  \/ RestartCallStart(t) \/ RestartExcept(t)

LoopStep(t) == StartStep(t) \/ RestartStep(t) \/ get_status(t) \/ get_logs(t)

Next ==
  \/ startup_event
  \/ \E r \in Requests : \E k \in Kinds : Arrive(r, k)
  \/ \E r \in Requests : Dispatch(r)
  \/ \E t \in Tasks : LoopStep(t)
  \/ \E p \in Pids : ChildExit(p)
  \/ \E p \in Pids : Die(p)

\* The web application: the startup hook, then the requests.
Spec == Init /\ [][Next]_vars

\* The loop runs what it can run and the kernel ends a killed process;
\* nothing obliges a client to send a request or a child to exit.
Fairness ==
  /\ WF_vars(startup_event)
  /\ \A r \in Requests : WF_vars(Dispatch(r))
  /\ \A t \in Tasks : WF_vars(LoopStep(t))
  /\ \A p \in Pids : WF_vars(Die(p))

FairSpec == Spec /\ Fairness

\* start_gateway as a function of the module, called again and again.
NextStart ==
  \/ startup_event
  \/ CallStart
  \/ StartStep(Startup)
  \/ \E p \in Pids : ChildExit(p)

StartSpec == Init /\ [][NextStart]_vars

\* The log: the startup, the child writing, and requests that read the log
\* with any "lines" or clear it.
NextLog ==
  \/ startup_event
  \/ StartStep(Startup)
  \/ \E r \in LogRequests : \E n \in 0..(MaxLines + 1) : LogArrive(r, n)
  \/ \E r \in LogRequests : Arrive(r, "clear_logs")
  \/ \E r \in Requests : Dispatch(r)
  \/ \E t \in Requests : get_logs(t)
  \/ \E t \in Requests : clear_logs(t)
  \/ \E p \in Pids : ChildWrite(p)
  \/ \E p \in Pids : ChildExit(p)

LogSpec == Init /\ [][NextLog]_vars

\* The web application and the end of its process.
NextShutdown == Next \/ Shutdown

ShutdownSpec == Init /\ [][NextShutdown]_vars

\* The web application with the password set or not, and requests to every
\* endpoint with every kind of credentials.
NextAuth ==
  \/ startup_event
  \/ \E r \in AuthRequests : \E k \in AllKinds : \E c \in Credentials :
       AuthArrive(r, k, c)
  \/ \E r \in Requests : Dispatch(r)
  \/ \E t \in Tasks : LoopStep(t)
  \/ \E t \in Tasks : FileStep(t)
  \/ \E p \in Pids : ChildExit(p)
  \/ \E p \in Pids : Die(p)

AuthSpec == AuthInit /\ [][NextAuth]_vars

\* The web gateway server: its start, its handlers and its shutdown.
WebInit == Init /\ ~log_exists

NextWeb ==
  \/ on_startup
  \/ CreateAgent
  \/ \E c \in Clients : WsRegister(c)
  \/ \E c \in Clients : WsPeerClose(c)
  \/ \E c \in Clients : WsUnregister(c)
  \/ on_shutdown

WebSpec == WebInit /\ [][NextWeb]_vars

\* ================================================================ claims

Running == gateway_process # None /\ Alive(gateway_process)

IsRestart(r) == kind[r] = "restart"

\* The signals a task has sent.
SentBy(t) == {i \in 1..Len(sent) : sent[i][1] = t}

\* ------------------------------------------------------------------ C1
\* C1: in every reachable state at most one child process spawned by the
\* supervisor is alive, whatever the interleaving of the startup hook's
\* start_gateway and the restart requests.
AtMostOneRunning == Cardinality(LiveChildren) <= 1

\* Two restart requests are in progress at once, one suspended in its sleep
\* and one on the loop thread, while the child is still alive.
AtMostOneRunningWitness ==
  \E r1, r2 \in Requests :
    /\ r1 # r2 /\ IsRestart(r1) /\ IsRestart(r2)
    /\ pc[r1] = "r_slept" /\ cur = r2 /\ pc[r2] = "r_lock"
    /\ Cardinality(LiveChildren) = 1

\* ------------------------------------------------------------------ C2
\* C2: a restart that found the child alive and signalled it returns, and
\* when it has returned a child with another pid is alive, unless the spawn
\* failed, and then the supervisor is not running.
RestartYieldsNewChild ==
  \A r \in Requests :
    (pc[r] = "r_wait") ~>
      (/\ pc[r] = "done"
       /\ \/ Running /\ gateway_process # old[r]
          \/ outcome[r] = "spawnfail" /\ ~Running)

\* ------------------------------------------------------------------ C3
\* C3: every invocation of start or restart, once invoked, eventually
\* returns a result to its caller.
RunsToCompletion ==
  \A t \in Tasks : (pc[t] \in {"s_lock", "r_lock"}) ~> (pc[t] = "done")

\* ------------------------------------------------------------------ C4
\* C4: from a restart's liveness check until its spawn of the new child the
\* lock is held by that restart, and while the restart is not on the loop
\* thread no other invocation spawns a child or sends a signal.
InRestartWindow(r) ==
  /\ IsRestart(r)
  /\ pc[r] \in {"r_term", "r_wait", "r_kill", "r_sleep", "r_slept", "r_start",
                 "s_lock", "s_check", "s_spawn"}

RestartHoldsLock == \A r \in Requests : InRestartWindow(r) => gateway_lock = r

NoForeignSpawnOrSignal ==
  (\E r \in Requests : InRestartWindow(r) /\ cur # r)
    => /\ sent' = sent
       /\ \A p \in Pids : proc[p] = "unborn" => proc'[p] = "unborn"

RestartIsAtomic == []RestartHoldsLock /\ [][NoForeignSpawnOrSignal]_vars

\* A restart has terminated the old child and is suspended before its
\* spawn, and a second restart has been invoked and is on the loop thread.
RestartIsAtomicWitness ==
  \E r1, r2 \in Requests :
    /\ r1 # r2 /\ IsRestart(r1) /\ IsRestart(r2)
    /\ pc[r1] = "r_slept" /\ old[r1] # None /\ ~Alive(old[r1])
    /\ cur = r2 /\ pc[r2] = "r_lock"

\* ------------------------------------------------------------------ C5
\* C5: a status request or a logs request, whenever it is issued, eventually
\* receives its response.
ReadsAreServed ==
  \A r \in Requests :
    (pc[r] = "queued" /\ kind[r] \in {"status", "logs"}) ~> (pc[r] = "done")

\* ------------------------------------------------------------------ C6
\* C6: start invoked while the current child is alive reports "already
\* running", spawns nothing and leaves the handle and the child as they
\* were; after it exactly one process is alive, the handle's.
StartWhileRunningStep(t) ==
  /\ pc'[t] # pc[t]
  /\ \/ pc[t] = "s_check" /\ Running
     \/ pc[t] = "s_ret" /\ outcome[t] = "already"

StartWhileRunningIsNoOp ==
  \A t \in Tasks :
    StartWhileRunningStep(t) =>
      /\ gateway_process' = gateway_process
      /\ proc' = proc
      /\ outcome'[t] = "already"
      /\ pc'[t] \in {"s_ret", "done"}

OneProcessAfterSecondStart ==
  \A t \in Tasks :
    (pc[t] = "done" /\ outcome[t] = "already" /\ Running)
      => LiveChildren = {gateway_process}

StartIsIdempotent ==
  []OneProcessAfterSecondStart /\ [][StartWhileRunningIsNoOp]_vars

\* A second start has returned "already running" and the child of the
\* first start is alive.
StartIsIdempotentWitness ==
  /\ calls >= 1
  /\ pc[Startup] = "done" /\ outcome[Startup] = "already"
  /\ gateway_process = 1 /\ proc[1] = "running"

\* ------------------------------------------------------------------ C7
\* C7: when the OS refuses to spawn, start leaves the handle as it was
\* before the call, and status then reports not running.
FailedSpawnKeepsHandle ==
  \A t \in Tasks :
    (pc[t] = "s_spawn" /\ outcome'[t] = "spawnfail")
      => gateway_process' = gateway_process

NotRunningAfterFailedSpawn ==
  \A t \in Tasks :
    (outcome[t] = "spawnfail" /\ pc[t] \in {"s_ret", "done"}) => ~Running

FailedSpawnLeavesStopped ==
  []NotRunningAfterFailedSpawn /\ [][FailedSpawnKeepsHandle]_vars

\* A start whose spawn was refused has returned, and the handle still
\* refers to the exited child it referred to before the call.
FailedSpawnLeavesStoppedWitness ==
  /\ pc[Startup] = "done" /\ outcome[Startup] = "spawnfail"
  /\ gateway_process # None /\ proc[gateway_process] = "exited"
  /\ Unborn # {}

\* ------------------------------------------------------------------ C8
\* C8: a start whose spawn fails, and a restart whose stop or start step
\* fails, return a failure result to the caller.
FailuresArePropagated ==
  \A t \in Tasks :
    (pc[t] = "done" /\ outcome[t] \in {"spawnfail", "signalfail"})
      => ret[t] = "failure"

\* ------------------------------------------------------------------ C9
\* C9: after the stop phase of restart has returned, on the graceful path
\* and on the kill path, the previously supervised process is not alive.
AfterStop(r) ==
  /\ IsRestart(r)
  /\ pc[r] \in {"r_sleep", "r_slept", "r_start", "s_lock"}

StoppedMeansDead ==
  \A r \in Requests : (AfterStop(r) /\ old[r] # None) => ~Alive(old[r])

\* ----------------------------------------------------------------- C10
\* C10: the stop phase performed when no child is alive (no handle, or a
\* handle to an exited process) sends no signal, raises no error and
\* changes neither the handle nor any process.
StopPhase == {"r_check", "r_term", "r_wait", "r_kill"}

StopStepWithoutChild(r) ==
  /\ pc[r] \in StopPhase
  /\ pc'[r] # pc[r]
  /\ ~Running

StopWithoutChildIsNoOp ==
  \A r \in Requests :
    StopStepWithoutChild(r) =>
      /\ sent' = sent
      /\ gateway_process' = gateway_process
      /\ proc' = proc
      /\ pc'[r] # "r_except"

StopWithoutChildIsSilent ==
  \A r \in Requests :
    (IsRestart(r) /\ pc[r] \notin {"queued", "r_lock", "r_check"}
       /\ old[r] = None)
      => SentBy(r) = {} /\ pc[r] # "r_except" /\ ret[r] # "failure"

NoOperationInProgress == gateway_lock = Free

StatusAnswer(t) == pc[t] = "q_status" /\ pc'[t] = "done"

StatusTellsTheTruth ==
  \A t \in Requests :
    (StatusAnswer(t) /\ NoOperationInProgress)
      => (ret'[t] = "running" <=> LiveChildren # {})

NoUnreferencedChild ==
  NoOperationInProgress => LiveChildren \subseteq {gateway_process}

StatusIsAccurate == []NoUnreferencedChild /\ [][StatusTellsTheTruth]_vars

\* A status request was answered "running" with no operation in progress
\* and the child alive.
StatusIsAccurateWitness ==
  \E r \in Requests :
    /\ kind[r] = "status" /\ ret[r] = "running"
    /\ NoOperationInProgress /\ Running

\* ----------------------------------------------------------------- C12
\* C12: status never takes the lock and never waits: it is answered as
\* soon as it runs, even while the lock is held; it spawns and signals
\* nothing and leaves the handle unchanged; with no handle it answers "not
\* running".
StatusChangesNothing ==
  \A t \in Requests :
    StatusAnswer(t) =>
      /\ gateway_process' = gateway_process
      /\ gateway_lock' = gateway_lock
      /\ proc' = proc
      /\ sent' = sent
      /\ (gateway_process = None => ret'[t] = "stopped")

StatusNeverWaits ==
  \A t \in Requests : (cur = t /\ pc[t] = "q_status") => ENABLED get_status(t)

StatusIsReadOnly == []StatusNeverWaits /\ [][StatusChangesNothing]_vars

\* A status request was answered while a restart, suspended in its sleep,
\* holds the lock.
StatusIsReadOnlyWitness ==
  \E r1, r2 \in Requests :
    /\ IsRestart(r1) /\ pc[r1] = "r_slept" /\ gateway_lock = r1
    /\ kind[r2] = "status" /\ pc[r2] = "done"
    /\ ret[r2] \in {"running", "stopped"}

\* ----------------------------------------------------------------- C13
\* C13: for every N >= 0 and every log, a logs request that reads the log
\* returns at most N lines, and they are the last min(N, total) lines of
\* the log in their order.
Min(a, b) == IF a <= b THEN a ELSE b

LogsAnswer(t) == pc[t] = "q_logs" /\ pc'[t] = "done"

LastNLines ==
  \A t \in Requests :
    (LogsAnswer(t) /\ ret'[t] = "lines") =>
      /\ Len(body'[t]) <= arg[t]
      /\ body'[t] = SubSeq(log, Len(log) - Min(arg[t], Len(log)) + 1, Len(log))

LogsReturnsLastN == [][LastNLines]_vars

\* ----------------------------------------------------------------- C14
\* C14 as claimed: if no child has ever been started by this supervisor, a
\* logs request returns no lines and does not fail.
NoChildEverStarted == \A p \in Pids : proc[p] = "unborn"

NoChildNoLines ==
  \A t \in Requests :
    (LogsAnswer(t) /\ NoChildEverStarted)
      => (body'[t] = <<>> /\ ret'[t] \in {"lines", "error_lines"})

LogsEmptyBeforeAnyChild == [][NoChildNoLines]_vars

\* C14 as amended: if no child has ever been started by this supervisor and
\* the log file holds no lines of an earlier run (it is absent or empty), a
\* logs request returns no lines and does not fail; with the file absent
\* its answer carries no error.
NothingLoggedNoLines ==
  \A t \in Requests :
    (LogsAnswer(t) /\ NoChildEverStarted /\ log = <<>>)
      => /\ body'[t] = <<>>
         /\ ret'[t] \in {"lines", "error_lines"}
         /\ (~log_exists => ret'[t] = "lines")

LogsEmptyWhenNothingLogged == [][NothingLoggedNoLines]_vars

\* A logs request was answered with no log file and no child ever started.
LogsEmptyWhenNothingLoggedWitness ==
  \E r \in Requests :
    /\ kind[r] = "logs" /\ pc[r] = "done" /\ ret[r] = "lines"
    /\ ~log_exists /\ NoChildEverStarted

\* ----------------------------------------------------------------- C15
\* C15: after the web application has shut down, no child spawned by the
\* supervisor is alive.
NoChildAfterShutdown == cur = Down => LiveChildren = {}

\* ----------------------------------------------------------------- C16
\* C16: the graceful signal comes first; the kill is sent only by a restart
\* that has sent the graceful signal to that process and whose wait ran out
\* with the process alive; a child that exits within the wait is not killed.
KillFollowsTerm ==
  \A i \in 1..Len(sent) :
    sent[i][3] = "KILL" =>
      \E j \in 1..(i - 1) : sent[j] = <<sent[i][1], sent[i][2], "TERM">>

KillOnlyAfterTimeout ==
  \A r \in Requests :
    /\ (pc'[r] = "r_kill" /\ pc[r] # "r_kill")
         => /\ pc[r] = "r_wait"
            /\ Alive(gateway_process) /\ proc' = proc
            /\ \E j \in 1..Len(sent) : sent[j] = <<r, gateway_process, "TERM">>
    /\ (Len(sent') > Len(sent) /\ sent'[Len(sent')] = <<r, gateway_process, "KILL">>)
         => pc[r] = "r_kill" /\ Alive(gateway_process)
    /\ (pc[r] = "r_wait" /\ pc'[r] # pc[r] /\ proc'[gateway_process] = "exited")
         => pc'[r] = "r_sleep" /\ sent' = sent

NoKillAfterGracefulExit ==
  \A r \in Requests :
    (IsRestart(r) /\ old[r] # None
       /\ pc[r] \in {"r_term", "r_wait", "r_except"})
      => \A i \in SentBy(r) : sent[i][3] # "KILL"

EscalationOrder ==
  [](KillFollowsTerm /\ NoKillAfterGracefulExit) /\ [][KillOnlyAfterTimeout]_vars

\* A restart sent the graceful signal and then, its wait over, the kill.
EscalationOrderWitness ==
  \E r \in Requests : \E p \in Pids :
    /\ sent = << <<r, p, "TERM">>, <<r, p, "KILL">> >>
    /\ pc[r] = "r_sleep"

\* ----------------------------------------------------------------- C17
\* C17: once the stop phase has terminated the child, the handle is unset.
HandleClearedAfterStop ==
  \A r \in Requests :
    (AfterStop(r) /\ old[r] # None /\ ~Alive(old[r]))
      => gateway_process = None

\* ----------------------------------------------------------------- C18
\* C18: a failure while reading the log gives an answer whose line list is
\* empty, not a failed request, and leaves handle and child as they were.
ReadFailureDegrades ==
  \A t \in Requests :
    LogsAnswer(t) =>
      /\ ret'[t] \in {"lines", "error_lines"}
      /\ (ret'[t] = "error_lines" => body'[t] = <<>>)
      /\ gateway_process' = gateway_process
      /\ gateway_lock' = gateway_lock
      /\ proc' = proc

LogReadIsBestEffort == [][ReadFailureDegrades]_vars

\* A logs request whose read failed was answered with no lines, and the
\* child is alive.
LogReadIsBestEffortWitness ==
  \E r \in Requests :
    /\ kind[r] = "logs" /\ pc[r] = "done" /\ ret[r] = "error_lines"
    /\ body[r] = <<>> /\ Running

\* ----------------------------------------------------------------- C19
\* C19: every write of gateway_process and every signal sent to the child
\* is made by the invocation that holds gateway_lock.
WriteOrSignalUnderLock ==
  (gateway_process' # gateway_process \/ sent' # sent)
    => /\ cur \in Tasks
       /\ gateway_lock = cur
       /\ gateway_lock' = cur

MutationsUnderLock == [][WriteOrSignalUnderLock]_vars

\* The handle was written by the startup's start and a restart, holding the
\* lock, has sent its first signal.
MutationsUnderLockWitness ==
  \E r \in Requests :
    /\ pc[r] = "r_wait" /\ gateway_lock = r
    /\ gateway_process # None /\ outcome[Startup] = "spawned"
    /\ sent = << <<r, gateway_process, "TERM">> >>

\* ----------------------------------------------------------------- C20
\* C20: with WEBUI_PASSWORD set, a request to any endpoint that carries no
\* credentials or another password is answered 401 before any effect; the
\* user name plays no part; with WEBUI_PASSWORD empty every request is
\* admitted.
MustReject(r) ==
  /\ WEBUI_PASSWORD # ""
  /\ (~cred[r].present \/ cred[r].password # WEBUI_PASSWORD)

RejectedIffUnauthorized ==
  \A r \in Requests :
    /\ pc[r] \notin {"unissued", "queued"} => (ret[r] = "401" <=> MustReject(r))
    /\ ret[r] = "401" => pc[r] = "done"

RejectionHasNoEffect ==
  \A r \in Requests :
    (pc[r] = "queued" /\ pc'[r] # "queued" /\ MustReject(r))
      => /\ ret'[r] = "401"
         /\ gateway_process' = gateway_process
         /\ gateway_lock' = gateway_lock
         /\ proc' = proc
         /\ sent' = sent
         /\ files' = files
         /\ log' = log
         /\ log_exists' = log_exists

AuthenticationGate ==
  []RejectedIffUnauthorized /\ [][RejectionHasNoEffect]_vars

\* A restart request with a wrong password was answered 401.
AuthenticationGateWitness ==
  \E r \in Requests :
    /\ kind[r] = "restart" /\ ret[r] = "401"
    /\ cred[r].present /\ cred[r].password # WEBUI_PASSWORD

\* ----------------------------------------------------------------- C21
\* C21: when on_shutdown returns, the cron service has been stopped and
\* every connection that was in ws_clients when on_shutdown was called is
\* closed, with or without an agent; an agent that on_shutdown found was
\* stopped before its MCP connections were closed and before cron was
\* stopped.
Position(e) ==
  IF \E i \in 1..Len(calls_made) : calls_made[i] = e
    THEN CHOOSE i \in 1..Len(calls_made) : calls_made[i] = e
    ELSE 0

Made(e) == Position(e) # 0

AgentStoppedFirst ==
  /\ Made("close_mcp") => (Made("agent.stop") /\ Position("agent.stop") < Position("close_mcp"))
  /\ (Made("cron.stop") /\ agent = "agent")
       => (Made("agent.stop") /\ Position("agent.stop") < Position("cron.stop"))

ShutdownDone ==
  wpc = "done" =>
    /\ cron_state = "stopped" /\ Made("cron.stop")
    /\ \A c \in began : ws[c] = "closed"
    /\ agent = "agent" =>
         /\ agent_state = "stopped" /\ mcp = "closed"
         /\ Made("agent.stop") /\ Made("close_mcp")

WebShutdownCleansUp == AgentStoppedFirst /\ ShutdownDone

\* on_shutdown has returned; it found an agent and every connection in
\* ws_clients, of which it closed at least one itself.
WebShutdownCleansUpWitness ==
  /\ wpc = "done"
  /\ agent = "agent"
  /\ began = Clients
  /\ Made("ws.close")
  /\ Position("agent.stop") = 1 /\ Position("close_mcp") = 2
  /\ Position("cron.stop") = 3

====
